---- MODULE Spec2Model ----
(***************************************************************************)
(* Model of the serialized chat dispatcher of the Skedulelt RAG server     *)
(* (app/gemini_client.py): the process-wide asyncio queue, the lazily      *)
(* started worker task, the retry loop around the provider call, and the   *)
(* callers awaiting their futures.                                         *)
(*                                                                         *)
(* All coroutines run on one asyncio event loop, so an action is the code  *)
(* a coroutine runs between two suspension points.  `await                 *)
(* _ensure_worker()` and `await q.put(...)` on an unbounded queue never    *)
(* suspend; chat() first suspends at `await future`.  The worker suspends  *)
(* at `await q.get()` on an empty queue, at `await run_in_executor(...)`   *)
(* and at `await asyncio.sleep(delay)`.                                    *)
(***************************************************************************)
EXTENDS Integers, Sequences, FiniteSets, TLC

\* Number of chat() calls made during a run.
MaxJobs == 3

\* Number of chat() calls plus failed provider invocations during a run.
MaxLoad == 6

MAX_RETRIES == 4

BASE_DELAY_S == 2

\* Python's None, where an integer or a task is expected.
None == 0

NoValue == [kind |-> "none"]

VARIABLES _queue, _worker_task, tasks, jobs, callers, kb

vars == <<_queue, _worker_task, tasks, jobs, callers, kb>>

----------------------------------------------------------------------------
\* Failures the provider call can raise.  code / status_code are the
\* attributes _call_with_retry reads; msg is the set of signal substrings
\* that occur in str(exc).lower(), which is what chat_endpoint inspects.
ProviderErrors ==
    { [name |-> "TooManyRequests", code |-> 429,  status_code |-> None, msg |-> {"429"}],
      [name |-> "StatusCode429",   code |-> None, status_code |-> 429,  msg |-> {"rate limit"}],
      [name |-> "QuotaExceeded",   code |-> None, status_code |-> None, msg |-> {"quota"}],
      [name |-> "Unauthorized",    code |-> 401,  status_code |-> None, msg |-> {"api key"}],
      [name |-> "Unavailable",     code |-> 503,  status_code |-> None, msg |-> {"unavailable"}],
      [name |-> "Blocked",         code |-> None, status_code |-> None, msg |-> {"blocked"}],
      [name |-> "Other",           code |-> 500,  status_code |-> None, msg |-> {}] }

\* The exception object raised by invocation n of the provider for job j.
Exc(e, j, n) ==
    [kind |-> "error", name |-> e.name, code |-> e.code,
     status_code |-> e.status_code, msg |-> e.msg, job |-> j, n |-> n]

\* response.text of invocation n of the provider for job j.
Text(j, n) == [kind |-> "text", job |-> j, n |-> n]

\* Future.set_result / set_exception on a future that is not pending.
InvalidStateError == [kind |-> "error", name |-> "InvalidStateError"]

\* status = getattr(exc, "code", None) or getattr(exc, "status_code", None)
Status(exc) == IF exc.code # None THEN exc.code ELSE exc.status_code

\* Variants of the retry condition, for sensitivity checks.
ShouldRetryOffByOne(exc, attempt) == Status(exc) = 429 /\ attempt <= MAX_RETRIES

ShouldRetryAny(exc, attempt) == attempt < MAX_RETRIES

ShouldRetryUnavailable(exc, attempt) ==
    Status(exc) \in {429, 503} /\ attempt < MAX_RETRIES

ShouldRetry(exc, attempt) == Status(exc) = 429 /\ attempt < MAX_RETRIES

RECURSIVE Pow2(_)
Pow2(n) == IF n = 0 THEN 1 ELSE 2 * Pow2(n - 1)

DelayLinear(attempt) == BASE_DELAY_S * (attempt + 1)

Delay(attempt) == BASE_DELAY_S * Pow2(attempt)

\* asyncio.Queue._put / _get on the underlying deque.
QPutFront(items, item) == <<item>> \o items

QPut(items, item) == Append(items, item)

QHead(items) == Head(items)

\* maxsize of `asyncio.Queue()`: 0, unbounded.
QMaxsize == 0

QFullAtOne(items) == Len(items) >= 1

\* asyncio.Queue.full(); `await q.put(...)` suspends while it is true.
QFull(items) == QMaxsize > 0 /\ Len(items) >= QMaxsize

NeedsWorkerAlways(wt, t) == TRUE

\* Variant without the `_worker_task.done()` test.
NeedsWorkerOnlyFirst(wt, t) == wt = None

NeedsWorker(wt, t) == wt = None \/ t[wt].pc = "done"

CanDequeueInBackoff(pc) == pc \in {"start", "get", "sleep"}

\* Position of a worker at `await q.get()`.
CanDequeue(pc) == pc \in {"start", "get"}

NewTask == [pc |-> "start", job |-> None, attempt |-> 0,
            last_err |-> NoValue, exception |-> NoValue]

NewJob ==
    [status |-> "Queued", invocations |-> 0, delays |-> <<>>,
     failures |-> 0, rl_failures |-> 0, last_outcome |-> NoValue,
     outcome |-> NoValue, future |-> [state |-> "pending", value |-> NoValue],
     dequeues |-> 0, fulfilled |-> 0]

----------------------------------------------------------------------------
\* The provider is invoked for job j by worker w (run_in_executor), attempt a.
Invoke(w, t, js, j, a) ==
    [tasks |-> [t EXCEPT ![w].pc = "call", ![w].job = j, ![w].attempt = a],
     jobs  |-> [js EXCEPT ![j].status = "Executing", ![j].invocations = @ + 1]]

\* Variant that reads the head of the queue without removing it.
AwaitGetPeek(w, q, t, js) ==
    IF q.items = <<>>
    THEN [queue |-> [q EXCEPT !.getters = Append(@, w)],
          tasks |-> [t EXCEPT ![w].pc = "get", ![w].job = None],
          jobs  |-> js]
    ELSE LET j == QHead(q.items)
             r == Invoke(w, [t EXCEPT ![w].last_err = NoValue],
                         [js EXCEPT ![j].dequeues = @ + 1], j, 0)
         IN [queue |-> q,
             tasks |-> r.tasks,
             jobs  |-> r.jobs]

\* `future, contents = await q.get()` followed by the first provider call of
\* _call_with_retry; on an empty queue the worker parks itself as a getter.
AwaitGet(w, q, t, js) ==
    IF q.items = <<>>
    THEN [queue |-> [q EXCEPT !.getters = Append(@, w)],
          tasks |-> [t EXCEPT ![w].pc = "get", ![w].job = None],
          jobs  |-> js]
    ELSE LET j == QHead(q.items)
             r == Invoke(w, [t EXCEPT ![w].last_err = NoValue],
                         [js EXCEPT ![j].dequeues = @ + 1], j, 0)
         IN [queue |-> [q EXCEPT !.items = Tail(@)],
             tasks |-> r.tasks,
             jobs  |-> r.jobs]

\* Variant that answers a failed Job with a fallback text.
FinishJobFallback(w, q, t, js, out) ==
    LET j   == t[w].job
        pending == js[j].future.state = "pending"
        js1 == [js EXCEPT
                  ![j].status  = IF out.kind = "text" THEN "Succeeded" ELSE "Failed",
                  ![j].outcome = out,
                  ![j].future  = IF pending
                                 THEN [state |-> "result",
                                       value |-> IF out.kind = "text" THEN out
                                                 ELSE [kind |-> "text", job |-> j, n |-> 0]]
                                 ELSE @,
                  ![j].fulfilled = IF pending THEN @ + 1 ELSE @]
        q1  == [q EXCEPT !.unfinished = @ - 1]
    IN IF pending
       THEN AwaitGet(w, q1, [t EXCEPT ![w].job = None], js1)
       ELSE [queue |-> q1,
             tasks |-> [t EXCEPT ![w].pc = "done", ![w].job = None,
                                 ![w].exception = InvalidStateError],
             jobs  |-> js1]

\* _call_with_retry has returned `out` (a text) or raised it (an error):
\* set_result / set_exception on the job's future, q.task_done(), and the
\* next `await q.get()`.  On a future that is no longer pending set_result
\* raises InvalidStateError inside the try, the handler's set_exception
\* raises it again, and the exception leaves the loop: the task is done.
FinishJob(w, q, t, js, out) ==
    LET j   == t[w].job
        pending == js[j].future.state = "pending"
        js1 == [js EXCEPT
                  ![j].status  = IF out.kind = "text" THEN "Succeeded" ELSE "Failed",
                  ![j].outcome = out,
                  ![j].future  = IF pending
                                 THEN [state |-> IF out.kind = "text" THEN "result"
                                                 ELSE "exception",
                                       value |-> out]
                                 ELSE @,
                  ![j].fulfilled = IF pending THEN @ + 1 ELSE @]
        q1  == [q EXCEPT !.unfinished = @ - 1]
    IN IF pending
       THEN AwaitGet(w, q1, [t EXCEPT ![w].job = None], js1)
       ELSE [queue |-> q1,
             tasks |-> [t EXCEPT ![w].pc = "done", ![w].job = None,
                                 ![w].exception = InvalidStateError],
             jobs  |-> js1]

\* Variant that tests the unavailable signals before the configuration ones.
ClassifyUnavailableFirst(msg) ==
    IF msg \cap {"429", "quota", "rate limit"} # {} THEN "rate_limit"
    ELSE IF msg \cap {"overloaded", "unavailable", "timeout"} # {} THEN "service_unavailable"
    ELSE IF msg \cap {"api key", "authentication", "unauthorized"} # {} THEN "configuration"
    ELSE IF msg \cap {"safety", "blocked", "violation"} # {} THEN "content_blocked"
    ELSE "internal_server_error"

\* Variant whose first test leaves out "quota".
ClassifyNoQuota(msg) ==
    IF msg \cap {"429", "rate limit"} # {} THEN "rate_limit"
    ELSE IF msg \cap {"api key", "authentication", "unauthorized"} # {} THEN "configuration"
    ELSE IF msg \cap {"overloaded", "unavailable", "timeout"} # {} THEN "service_unavailable"
    ELSE IF msg \cap {"safety", "blocked", "violation"} # {} THEN "content_blocked"
    ELSE "internal_server_error"

\* chat_endpoint's classification of str(e).lower(), first match wins.
Classify(msg) ==
    IF msg \cap {"429", "quota", "rate limit"} # {} THEN "rate_limit"
    ELSE IF msg \cap {"api key", "authentication", "unauthorized"} # {} THEN "configuration"
    ELSE IF msg \cap {"overloaded", "unavailable", "timeout"} # {} THEN "service_unavailable"
    ELSE IF msg \cap {"safety", "blocked", "violation"} # {} THEN "content_blocked"
    ELSE "internal_server_error"

----------------------------------------------------------------------------
(***************************************************************************)
(* The knowledge base (knowledge_base.py), the prompt built by chat() and  *)
(* the error mapping of chat_endpoint.  A Python str is a sequence of      *)
(* one-character strings where its characters matter (queries, keywords)   *)
(* and a sequence of pieces where only concatenation matters (full_text,   *)
(* the system prompt).  A section's content stands for its text.           *)
(***************************************************************************)

\* The catalog of src/app/knowledge_base.py.
SECTIONS_app ==
    << [id |-> "overview", title |-> "1. General Product Overview",
        content |-> "app/overview.content",
        keywords |-> <<
            <<"s", "k", "e", "d", "u", "l", "e", "l", "t">>,
            <<"s", "k", "e", "d", "u", "l", "e", "i", "t">>,
            <<"w", "h", "a", "t", " ", "i", "s">>,
            <<"a", "b", "o", "u", "t">>,
            <<"o", "v", "e", "r", "v", "i", "e", "w">>,
            <<"p", "l", "a", "t", "f", "o", "r", "m">>,
            <<"i", "o", "s">>,
            <<"a", "n", "d", "r", "o", "i", "d">>,
            <<"t", "r", "i", "n", "i", "d", "a", "d">>,
            <<"m", "o", "b", "i", "l", "e", " ", "a", "p", "p">>,
            <<"w", "e", "b", "s", "i", "t", "e">>,
            <<"w", "e", "b", " ", "a", "p", "p">> >>],
       [id |-> "account_signup", title |-> "2. Account Creation & Signup",
        content |-> "app/account_signup.content",
        keywords |-> <<
            <<"s", "i", "g", "n", " ", "u", "p">>,
            <<"s", "i", "g", "n", "u", "p">>,
            <<"c", "r", "e", "a", "t", "e", " ", "a", "c", "c", "o", "u", "n", "t">>,
            <<"r", "e", "g", "i", "s", "t", "e", "r">>,
            <<"n", "e", "w", " ", "a", "c", "c", "o", "u", "n", "t">>,
            <<"c", "u", "s", "t", "o", "m", "e", "r", " ", "a", "c", "c", "o", "u", "n", "t">>,
            <<"b", "u", "s", "i", "n", "e", "s", "s", " ", "a", "c", "c", "o", "u", "n", "t">>,
            <<"c", "r", "e", "d", "i", "t", " ", "c", "a", "r", "d">>,
            <<"p", "a", "y", "m", "e", "n", "t", " ", "i", "n", "f", "o">>,
            <<"a", "p", "p", "r", "o", "v", "a", "l">>,
            <<"r", "e", "v", "i", "e", "w", " ", "p", "r", "o", "c", "e", "s", "s">>,
            <<"f", "r", "e", "e", " ", "t", "r", "i", "a", "l">> >>],
       [id |-> "business_vs_provider", title |-> "3. Business vs Service Provider",
        content |-> "app/business_vs_provider.content",
        keywords |-> <<
            <<"b", "u", "s", "i", "n", "e", "s", "s">>,
            <<"s", "e", "r", "v", "i", "c", "e", " ", "p", "r", "o", "v", "i", "d", "e", "r">>,
            <<"t", "e", "a", "m", " ", "m", "e", "m", "b", "e", "r">>,
            <<"e", "m", "p", "l", "o", "y", "e", "e">>,
            <<"s", "o", "l", "e", " ", "t", "r", "a", "d", "e", "r">>,
            <<"i", "n", "d", "e", "p", "e", "n", "d", "e", "n", "t", " ", "c", "o", "n", "t", "r", "a", "c", "t", "o", "r">>,
            <<"d", "i", "f", "f", "e", "r", "e", "n", "c", "e">>,
            <<"m", "u", "l", "t", "i", "p", "l", "e", " ", "p", "r", "o", "v", "i", "d", "e", "r", "s">>,
            <<"a", "d", "d", " ", "t", "e", "a", "m">>,
            <<"s", "t", "a", "f", "f">> >>],
       [id |-> "customer_faq", title |-> "4. Customer FAQ",
        content |-> "app/customer_faq.content",
        keywords |-> <<
            <<"b", "o", "o", "k">>,
            <<"b", "o", "o", "k", "i", "n", "g">>,
            <<"s", "c", "h", "e", "d", "u", "l", "e">>,
            <<"a", "p", "p", "o", "i", "n", "t", "m", "e", "n", "t">>,
            <<"m", "a", "k", "e", " ", "a", "p", "p", "o", "i", "n", "t", "m", "e", "n", "t">>,
            <<"b", "r", "o", "w", "s", "e">>,
            <<"s", "e", "a", "r", "c", "h">>,
            <<"f", "i", "n", "d", " ", "b", "u", "s", "i", "n", "e", "s", "s">>,
            <<"c", "a", "n", "c", "e", "l", " ", "a", "p", "p", "o", "i", "n", "t", "m", "e", "n", "t">>,
            <<"m", "a", "n", "a", "g", "e", " ", "b", "o", "o", "k", "i", "n", "g">>,
            <<"c", "o", "n", "f", "i", "r", "m", "a", "t", "i", "o", "n">>,
            <<"r", "e", "m", "i", "n", "d", "e", "r">> >>],
       [id |-> "business_faq", title |-> "5. Business FAQ",
        content |-> "app/business_faq.content",
        keywords |-> <<
            <<"m", "a", "n", "a", "g", "e">>,
            <<"s", "c", "h", "e", "d", "u", "l", "e">>,
            <<"a", "v", "a", "i", "l", "a", "b", "i", "l", "i", "t", "y">>,
            <<"c", "a", "l", "e", "n", "d", "a", "r">>,
            <<"w", "o", "r", "k", "i", "n", "g", " ", "h", "o", "u", "r", "s">>,
            <<"b", "u", "s", "i", "n", "e", "s", "s", " ", "p", "r", "o", "f", "i", "l", "e">>,
            <<"s", "e", "r", "v", "i", "c", "e", "s">>,
            <<"p", "r", "i", "c", "i", "n", "g">>,
            <<"t", "e", "a", "m">>,
            <<"p", "a", "y", "m", "e", "n", "t", "s">>,
            <<"r", "e", "p", "o", "r", "t", "i", "n", "g">>,
            <<"a", "n", "a", "l", "y", "t", "i", "c", "s">>,
            <<"s", "o", "c", "i", "a", "l", " ", "m", "e", "d", "i", "a">>,
            <<"i", "n", "s", "t", "a", "g", "r", "a", "m">>,
            <<"f", "a", "c", "e", "b", "o", "o", "k">>,
            <<"b", "o", "o", "k", "i", "n", "g", " ", "l", "i", "n", "k">>,
            <<"s", "h", "a", "r", "e">> >>],
       [id |-> "support_help", title |-> "6. Help & Support",
        content |-> "app/support_help.content",
        keywords |-> <<
            <<"h", "e", "l", "p">>,
            <<"s", "u", "p", "p", "o", "r", "t">>,
            <<"c", "o", "n", "t", "a", "c", "t">>,
            <<"a", "s", "s", "i", "s", "t", "a", "n", "c", "e">>,
            <<"l", "e", "a", "r", "n", " ", "m", "o", "r", "e">>,
            <<"o", "n", "b", "o", "a", "r", "d", "i", "n", "g">>,
            <<"g", "e", "t", " ", "h", "e", "l", "p">>,
            <<"c", "u", "s", "t", "o", "m", "e", "r", " ", "s", "e", "r", "v", "i", "c", "e">> >>],
       [id |-> "account_management", title |-> "7. Account Management",
        content |-> "app/account_management.content",
        keywords |-> <<
            <<"c", "a", "n", "c", "e", "l", " ", "a", "c", "c", "o", "u", "n", "t">>,
            <<"c", "l", "o", "s", "e", " ", "a", "c", "c", "o", "u", "n", "t">>,
            <<"d", "e", "l", "e", "t", "e", " ", "a", "c", "c", "o", "u", "n", "t">>,
            <<"d", "e", "a", "c", "t", "i", "v", "a", "t", "e">>,
            <<"r", "e", "m", "o", "v", "e", " ", "a", "c", "c", "o", "u", "n", "t">>,
            <<"a", "c", "c", "o", "u", "n", "t", " ", "c", "l", "o", "s", "u", "r", "e">> >>] >>

\* The catalog of src/RAG-Server/app/knowledge_base.py.
SECTIONS_rag ==
    << [id |-> "overview", title |-> "1. General Product Overview",
        content |-> "RAG-Server/app/overview.content",
        keywords |-> <<
            <<"s", "k", "e", "d", "u", "l", "e", "l", "t">>,
            <<"w", "h", "a", "t", " ", "i", "s">>,
            <<"a", "b", "o", "u", "t">>,
            <<"o", "v", "e", "r", "v", "i", "e", "w">>,
            <<"p", "l", "a", "t", "f", "o", "r", "m">>,
            <<"i", "o", "s">>,
            <<"a", "n", "d", "r", "o", "i", "d">>,
            <<"t", "r", "i", "n", "i", "d", "a", "d">> >>],
       [id |-> "customer_faq", title |-> "2. Customer FAQ",
        content |-> "RAG-Server/app/customer_faq.content",
        keywords |-> <<
            <<"b", "o", "o", "k">>,
            <<"b", "o", "o", "k", "i", "n", "g">>,
            <<"s", "c", "h", "e", "d", "u", "l", "e">>,
            <<"a", "p", "p", "o", "i", "n", "t", "m", "e", "n", "t">>,
            <<"m", "a", "k", "e", " ", "a", "p", "p", "o", "i", "n", "t", "m", "e", "n", "t">>,
            <<"t", "a", "l", "k">>,
            <<"c", "h", "a", "t">>,
            <<"m", "e", "s", "s", "a", "g", "e">>,
            <<"c", "o", "n", "t", "a", "c", "t">>,
            <<"s", "e", "n", "d", " ", "p", "h", "o", "t", "o">>,
            <<"m", "e", "s", "s", "a", "g", "i", "n", "g">>,
            <<"p", "a", "y">>,
            <<"p", "a", "y", "m", "e", "n", "t">>,
            <<"c", "o", "s", "t">>,
            <<"c", "r", "e", "d", "i", "t", " ", "c", "a", "r", "d">>,
            <<"t", "r", "a", "n", "s", "a", "c", "t", "i", "o", "n">>,
            <<"p", "r", "i", "c", "e">>,
            <<"h", "o", "w", " ", "d", "o", " ", "i">>,
            <<"b", "a", "r", "b", "e", "r">>,
            <<"s", "t", "y", "l", "i", "s", "t">>,
            <<"p", "o", "r", "t", "f", "o", "l", "i", "o">> >>],
       [id |-> "provider_faq", title |-> "3. Service Provider FAQ",
        content |-> "RAG-Server/app/provider_faq.content",
        keywords |-> <<
            <<"m", "a", "n", "a", "g", "e">>,
            <<"s", "c", "h", "e", "d", "u", "l", "e">>,
            <<"a", "v", "a", "i", "l", "a", "b", "i", "l", "i", "t", "y">>,
            <<"c", "a", "l", "e", "n", "d", "a", "r">>,
            <<"w", "o", "r", "k", "i", "n", "g", " ", "h", "o", "u", "r", "s">>,
            <<"b", "l", "o", "c", "k", " ", "t", "i", "m", "e">>,
            <<"g", "r", "o", "w">>,
            <<"b", "u", "s", "i", "n", "e", "s", "s">>,
            <<"m", "a", "r", "k", "e", "t", "i", "n", "g">>,
            <<"m", "o", "r", "e", " ", "c", "u", "s", "t", "o", "m", "e", "r", "s">>,
            <<"f", "i", "l", "l", " ", "s", "l", "o", "t", "s">>,
            <<"r", "e", "c", "o", "m", "m", "e", "n", "d", "a", "t", "i", "o", "n", "s">>,
            <<"p", "e", "r", "f", "o", "r", "m", "a", "n", "c", "e">>,
            <<"e", "a", "r", "n", "i", "n", "g", "s">>,
            <<"r", "e", "p", "o", "r", "t">>,
            <<"a", "n", "a", "l", "y", "t", "i", "c", "s">>,
            <<"m", "o", "n", "e", "y">>,
            <<"f", "i", "n", "a", "n", "c", "i", "a", "l", "s">>,
            <<"s", "e", "r", "v", "i", "c", "e", " ", "p", "r", "o", "v", "i", "d", "e", "r">>,
            <<"h", "o", "w", " ", "d", "o", " ", "i", " ", "g", "e", "t", " ", "p", "a", "i", "d">> >>],
       [id |-> "policies", title |-> "4. Official Policies",
        content |-> "RAG-Server/app/policies.content",
        keywords |-> <<
            <<"c", "a", "n", "c", "e", "l">>,
            <<"c", "a", "n", "c", "e", "l", "l", "a", "t", "i", "o", "n">>,
            <<"r", "e", "s", "c", "h", "e", "d", "u", "l", "e">>,
            <<"n", "o", "-", "s", "h", "o", "w">>,
            <<"n", "o", " ", "s", "h", "o", "w">>,
            <<"p", "o", "l", "i", "c", "y">>,
            <<"p", "o", "l", "i", "c", "i", "e", "s">>,
            <<"t", "t", "d">>,
            <<"c", "u", "r", "r", "e", "n", "c", "y">>,
            <<"r", "e", "f", "u", "n", "d">>,
            <<"d", "i", "s", "p", "u", "t", "e">>,
            <<"s", "a", "f", "e">>,
            <<"s", "e", "c", "u", "r", "e">>,
            <<"s", "e", "c", "u", "r", "i", "t", "y">>,
            <<"e", "n", "c", "r", "y", "p", "t", "e", "d">>,
            <<"p", "r", "i", "v", "a", "c", "y">>,
            <<"d", "a", "t", "a">>,
            <<"c", "r", "e", "d", "i", "t", " ", "c", "a", "r", "d", " ", "s", "a", "f", "e">>,
            <<"a", "u", "t", "h", "e", "n", "t", "i", "c", "a", "t", "i", "o", "n">>,
            <<"l", "o", "g", "i", "n">> >>] >>

Uppers == <<"A", "B", "C", "D", "E", "F", "G", "H", "I", "J", "K", "L", "M",
            "N", "O", "P", "Q", "R", "S", "T", "U", "V", "W", "X", "Y", "Z">>

Lowers == <<"a", "b", "c", "d", "e", "f", "g", "h", "i", "j", "k", "l", "m",
            "n", "o", "p", "q", "r", "s", "t", "u", "v", "w", "x", "y", "z">>

LowerChar(c) ==
    IF \E i \in 1..26 : Uppers[i] = c
    THEN Lowers[CHOOSE i \in 1..26 : Uppers[i] = c]
    ELSE c

\* str.lower()
Lower(s) == [i \in 1..Len(s) |-> LowerChar(s[i])]

\* Variant: str.startswith instead of `in`.
StartsWith(kw, s) == Len(kw) <= Len(s) /\ SubSeq(s, 1, Len(kw)) = kw

\* `kw in lower`: kw is a substring of s.
Contains(kw, s) ==
    \E i \in 0..(Len(s) - Len(kw)) : SubSeq(s, i + 1, i + Len(kw)) = kw

\* sum(1 for kw in section.keywords if kw in lower)
Hits(section, lower) ==
    Cardinality({k \in 1..Len(section.keywords) : Contains(section.keywords[k], lower)})

\* Stable insertion of x into a sequence ordered by descending hits.
InsertByHits(sorted, x, lower) ==
    LET n == Cardinality({i \in 1..Len(sorted) :
                            Hits(sorted[i], lower) >= Hits(x, lower)})
    IN SubSeq(sorted, 1, n) \o <<x>> \o SubSeq(sorted, n + 1, Len(sorted))

\* Variant: sorted(..., key=...) without reverse=True.
RECURSIVE SortedForward(_, _)
SortedForward(secs, lower) ==
    IF secs = <<>> THEN <<>>
    ELSE LET rest == SortedForward(SubSeq(secs, 1, Len(secs) - 1), lower)
             x    == secs[Len(secs)]
             n    == Cardinality({i \in 1..Len(rest) :
                                    Hits(rest[i], lower) <= Hits(x, lower)})
         IN SubSeq(rest, 1, n) \o <<x>> \o SubSeq(rest, n + 1, Len(rest))

\* sorted(..., key=hits, reverse=True): descending, equal keys keep their order.
RECURSIVE SortedReverse(_, _)
SortedReverse(secs, lower) ==
    IF secs = <<>> THEN <<>>
    ELSE InsertByHits(SortedReverse(SubSeq(secs, 1, Len(secs) - 1), lower),
                      secs[Len(secs)], lower)

\* scored = [(section, hits) for section in SECTIONS]
Scored(sections, lower) ==
    [i \in 1..Len(sections) |-> <<sections[i], Hits(sections[i], lower)>>]

KeepHit(pair) == pair[2] > 0

\* matched = sorted((sec for sec, hits in scored if hits > 0), ...)
Matched(sections, lower) ==
    LET kept == SelectSeq(Scored(sections, lower), KeepHit)
    IN SortedReverse([i \in 1..Len(kept) |-> kept[i][1]], lower)

SelectedNoFallback(matched, sections) == matched

\* selected = matched if matched else SECTIONS
Selected(matched, sections) == IF matched # <<>> THEN matched ELSE sections

Delimiter == "\n\n---\n\n"

\* f"### {s.title}\n{s.content}"
Block(s) == <<"### ", s.title, "\n", s.content>>

\* Variant that leaves out the first selected section.
RECURSIVE FullTextSkipFirst(_)
FullTextSkipFirst(selected) ==
    IF Len(selected) <= 1 THEN <<>>
    ELSE IF Len(selected) = 2 THEN Block(selected[2])
    ELSE FullTextSkipFirst(SubSeq(selected, 1, Len(selected) - 1))
           \o <<Delimiter>> \o Block(selected[Len(selected)])

\* The first n blocks of `selected`, joined by the delimiter.
RECURSIVE JoinBlocks(_, _)
JoinBlocks(selected, n) ==
    IF n = 0 THEN <<>>
    ELSE IF n = 1 THEN Block(selected[1])
    ELSE JoinBlocks(selected, n - 1) \o <<Delimiter>> \o Block(selected[n])

\* "\n\n---\n\n".join(f"### {s.title}\n{s.content}" for s in selected)
FullText(selected) == JoinBlocks(selected, Len(selected))

get_relevant_context(sections, query) ==
    LET lower    == Lower(query)
        selected == Selected(Matched(sections, lower), sections)
    IN [matched   |-> [i \in 1..Len(selected) |-> selected[i].title],
        full_text |-> FullText(selected)]

\* Variant that sorts the catalog itself (SECTIONS.sort(...)).
CatalogSortedInPlace(sections, query) == SortedReverse(sections, Lower(query))

\* SECTIONS after get_relevant_context(query): the comprehension and
\* sorted() build new lists, `selected` is only read.
CatalogAfter(sections, query) == sections

PromptHeader == "You are the official Skedulelt Support Assistant. ... SKEDULELT KNOWLEDGE BASE"

PromptFooter == "\n================================================"

\* _build_system_prompt(): the instructions, get_full_knowledge_base(), the rule.
_build_system_prompt(sections) ==
    <<PromptHeader>> \o FullText(sections) \o <<PromptFooter>>

GroundingAck ==
    <<"Got it. I'm the Skedulelt Support Assistant. I'll answer only based on the knowledge base provided. How can I help?">>

MapRoleIdentity(role) == role

\* role = "model" if turn["role"] == "assistant" else "user"
MapRole(role) == IF role = "assistant" THEN "model" ELSE "user"

\* Variant whose system prompt carries ctx.full_text, the selected sections,
\* in place of the full knowledge base.
BuildContentsFromContext(sections, history, current_message) ==
    <<[role |-> "user",
       text |-> <<PromptHeader>>
                \o get_relevant_context(sections, current_message).full_text
                \o <<PromptFooter>>],
      [role |-> "model", text |-> GroundingAck]>>
    \o [i \in 1..Len(history) |->
          [role |-> MapRole(history[i].role), text |-> history[i].text]]
    \o <<[role |-> "user", text |-> current_message]>>

\* The contents list chat() builds before it enqueues the Job.
BuildContents(sections, history, current_message) ==
    <<[role |-> "user",  text |-> _build_system_prompt(sections)],
      [role |-> "model", text |-> GroundingAck]>>
    \o [i \in 1..Len(history) |->
          [role |-> MapRole(history[i].role), text |-> history[i].text]]
    \o <<[role |-> "user", text |-> current_message]>>

RECURSIVE TotalFailures(_)
TotalFailures(js) ==
    IF js = <<>> THEN 0 ELSE Head(js).failures + TotalFailures(Tail(js))

----------------------------------------------------------------------------
Init ==
    /\ _queue = [exists |-> FALSE, items |-> <<>>, getters |-> <<>>, unfinished |-> 0]
    /\ _worker_task = None
    /\ tasks = <<>>
    /\ jobs = <<>>
    /\ callers = <<>>
    /\ kb = [SECTIONS |-> SECTIONS_app, fn |-> "none", arg |-> NoValue, result |-> NoValue]

\* Variant that keeps ctx in one place shared by all calls, overwritten by
\* the latest call.
CtxOfLatest(cs, c) == cs[Len(cs)].ctx

\* `ctx`, local to the chat() call of caller c.
CtxOf(cs, c) == cs[c].ctx

\* chat(history, current_message): ctx = get_relevant_context(...), build
\* the contents, _get_queue(), _ensure_worker(), create the future and
\* q.put((future, contents)); the caller then awaits the future.  The step
\* runs to `await future` only if the put does not suspend.
ChatCall(history, current_message) ==
    /\ Len(jobs) < MaxJobs
    /\ Len(jobs) + TotalFailures(jobs) < MaxLoad
    /\ ~QFull(_queue.items)
    /\ LET j    == Len(jobs) + 1
           need == NeedsWorker(_worker_task, tasks)
           t1   == IF need THEN Append(tasks, NewTask) ELSE tasks
           woken == _queue.getters # <<>>
       IN /\ tasks' = t1
          /\ _worker_task' = IF need THEN Len(t1) ELSE _worker_task
          /\ jobs' = Append(jobs, NewJob @@
                                   [contents |-> BuildContents(kb.SECTIONS, history,
                                                               current_message)])
          /\ _queue' = [exists     |-> TRUE,
                        items      |-> QPut(_queue.items, j),
                        getters    |-> IF woken THEN Tail(_queue.getters)
                                       ELSE _queue.getters,
                        unfinished |-> _queue.unfinished + 1]
          /\ callers' = Append(callers,
                [pc |-> "await", value |-> NoValue, history |-> history,
                 current_message |-> current_message,
                 ctx |-> get_relevant_context(kb.SECTIONS, current_message),
                 result |-> NoValue])
    /\ UNCHANGED kb

\* A chat() call whose arguments play no part: no history, message "hi".
Chat == ChatCall(<<>>, <<"h", "i">>)

\* The worker task runs: first step of _queue_worker, or resumption of
\* `await q.get()` after a put woke it.
WorkerGet(w) ==
    /\ CanDequeue(tasks[w].pc)
    /\ \A i \in 1..Len(_queue.getters) : _queue.getters[i] # w
    /\ LET r == AwaitGet(w, [_queue EXCEPT !.exists = TRUE], tasks, jobs)
       IN /\ _queue' = r.queue
          /\ tasks' = r.tasks
          /\ jobs' = r.jobs
    /\ UNCHANGED <<_worker_task, callers, kb>>

\* The provider call of worker w completes with text or with a failure,
\* and _call_with_retry / _queue_worker run up to their next suspension.
ProviderReturns(w) ==
    /\ tasks[w].pc = "call"
    /\ LET j == tasks[w].job
           n == jobs[j].invocations
           a == tasks[w].attempt
       IN \/ LET out == Text(j, n)
                 js  == [jobs EXCEPT ![j].last_outcome = out]
                 r   == FinishJob(w, _queue, tasks, js, out)
             IN /\ _queue' = r.queue
                /\ tasks' = r.tasks
                /\ jobs' = r.jobs
          \/ \E e \in ProviderErrors :
               /\ Len(jobs) + TotalFailures(jobs) < MaxLoad
               /\ LET exc == Exc(e, j, n)
                      js  == [jobs EXCEPT ![j].last_outcome = exc,
                                          ![j].failures = @ + 1,
                                          ![j].rl_failures =
                                              IF Status(exc) = 429 THEN @ + 1 ELSE @]
                      t1  == [tasks EXCEPT ![w].last_err = exc]
                  IN IF ShouldRetry(exc, a)
                     THEN /\ tasks' = [t1 EXCEPT ![w].pc = "sleep"]
                          /\ jobs' = [js EXCEPT ![j].delays = Append(@, Delay(a))]
                          /\ UNCHANGED _queue
                     ELSE LET r == FinishJob(w, _queue, t1, js, exc)
                          IN /\ _queue' = r.queue
                             /\ tasks' = r.tasks
                             /\ jobs' = r.jobs
    /\ UNCHANGED <<_worker_task, callers, kb>>

\* asyncio.sleep(delay) is over: next iteration of `for attempt in
\* range(MAX_RETRIES + 1)`, or `raise last_err` once the range is exhausted.
SleepDone(w) ==
    /\ tasks[w].pc = "sleep"
    /\ LET j == tasks[w].job
           a == tasks[w].attempt + 1
       IN IF a <= MAX_RETRIES
          THEN LET r == Invoke(w, tasks, jobs, j, a)
               IN /\ tasks' = r.tasks
                  /\ jobs' = r.jobs
                  /\ UNCHANGED _queue
          ELSE LET r == FinishJob(w, _queue, tasks, jobs, tasks[w].last_err)
               IN /\ _queue' = r.queue
                  /\ tasks' = r.tasks
                  /\ jobs' = r.jobs
    /\ UNCHANGED <<_worker_task, callers, kb>>

\* The caller of chat() is cancelled (or its wait times out) at
\* `answer = await future`: the cancellation cancels a pending future.
Abandon(c) ==
    /\ callers[c].pc = "await"
    /\ jobs[c].future.state = "pending"
    /\ callers' = [callers EXCEPT ![c].pc = "cancelled"]
    /\ jobs' = [jobs EXCEPT ![c].future = [state |-> "cancelled", value |-> NoValue]]
    /\ UNCHANGED <<_queue, _worker_task, tasks, kb>>

\* `answer = await future` resumes: chat() returns
\* ChatResult(answer, ctx.matched) or raises.
Resume(c) ==
    /\ callers[c].pc = "await"
    /\ jobs[c].future.state \in {"result", "exception"}
    /\ callers' = [callers EXCEPT
                     ![c].pc = IF jobs[c].future.state = "result"
                               THEN "returned" ELSE "raised",
                     ![c].value = jobs[c].future.value,
                     ![c].result =
                        IF jobs[c].future.state = "result"
                        THEN [answer |-> jobs[c].future.value,
                              matched_sections |-> CtxOf(callers, c).matched]
                        ELSE NoValue]
    /\ UNCHANGED <<_queue, _worker_task, tasks, jobs, kb>>

Next ==
    \/ Chat
    \/ \E w \in 1..Len(tasks) : WorkerGet(w)
    \/ \E w \in 1..Len(tasks) : ProviderReturns(w)
    \/ \E w \in 1..Len(tasks) : SleepDone(w)
    \/ \E c \in 1..Len(callers) : Abandon(c)
    \/ \E c \in 1..Len(callers) : Resume(c)

Spec == Init /\ [][Next]_vars

\* The event loop runs every ready coroutine, the executor finishes every
\* provider call and every back-off sleep ends; submissions and
\* cancellations are up to the callers.
FairSpec ==
    /\ Spec
    /\ WF_vars(\E w \in 1..Len(tasks) : WorkerGet(w))
    /\ WF_vars(\E w \in 1..Len(tasks) : ProviderReturns(w))
    /\ WF_vars(\E w \in 1..Len(tasks) : SleepDone(w))
    /\ WF_vars(\E c \in 1..Len(callers) : Resume(c))

----------------------------------------------------------------------------
(***************************************************************************)
(* The functions of the request path that do not touch the dispatcher,     *)
(* called on bounded inputs; kb records the call in progress and its       *)
(* result.                                                                 *)
(***************************************************************************)

\* Words a query is made of.
MaxWords == 2

\* Turns of a history.
MaxHistory == 2

\* Signal substrings in one error text.
MaxSignals == 2

Vocabulary ==
    { <<"b", "o", "o", "k">>,
      <<"b", "o", "o", "k", "i", "n", "g">>,
      <<"m", "a", "n", "a", "g", "e">>,
      <<"s", "c", "h", "e", "d", "u", "l", "e">>,
      <<"c", "a", "n", "c", "e", "l">>,
      <<"a", "c", "c", "o", "u", "n", "t">>,
      <<"h", "e", "l", "p">>,
      <<"z", "z", "z">>,
      <<"B", "o", "o", "k">> }

\* "How do I book an appointment?"
BookQuery ==
    <<"H", "o", "w", " ", "d", "o", " ", "I", " ", "b", "o", "o", "k", " ", "a", "n", " ", "a", "p", "p", "o", "i", "n", "t", "m", "e", "n", "t", "?">>

\* " ".join(words)
RECURSIVE JoinWords(_)
JoinWords(words) ==
    IF words = <<>> THEN <<>>
    ELSE IF Len(words) = 1 THEN words[1]
    ELSE JoinWords(SubSeq(words, 1, Len(words) - 1)) \o <<" ">> \o words[Len(words)]

Queries ==
    {BookQuery} \cup
    UNION {{JoinWords(ws) : ws \in [1..n -> Vocabulary]} : n \in 0..MaxWords}

Turns == [role : {"user", "assistant"}, text : {<<"hello">>, <<"Hi! How can I help?">>}]

Histories == UNION {[1..n -> Turns] : n \in 0..MaxHistory}

Messages == {<<"h", "i">>, BookQuery}

Signals ==
    {"429", "quota", "rate limit", "api key", "authentication", "unauthorized",
     "overloaded", "unavailable", "timeout", "safety", "blocked", "violation"}

ErrorTexts == {m \in SUBSET Signals : Cardinality(m) <= MaxSignals}

\* The HTTPException chat_endpoint raises for an error text.
chat_endpoint_error(msg) ==
    LET c == Classify(msg)
    IN CASE c = "rate_limit" ->
              [status_code |-> 429, error |-> c, retry_after |-> 60]
         [] c = "configuration" ->
              [status_code |-> 500, error |-> c, retry_after |-> None]
         [] c = "service_unavailable" ->
              [status_code |-> 503, error |-> c, retry_after |-> None]
         [] c = "content_blocked" ->
              [status_code |-> 400, error |-> c, retry_after |-> None]
         [] OTHER ->
              [status_code |-> 500, error |-> "internal_server_error",
               retry_after |-> None]

InitPure ==
    /\ _queue = [exists |-> FALSE, items |-> <<>>, getters |-> <<>>, unfinished |-> 0]
    /\ _worker_task = None
    /\ tasks = <<>>
    /\ jobs = <<>>
    /\ callers = <<>>
    /\ \E sections \in {SECTIONS_app, SECTIONS_rag} :
         kb = [SECTIONS |-> sections, fn |-> "none", arg |-> NoValue, result |-> NoValue]

\* get_relevant_context(query), from an idle state or once more with the
\* query of the call before.
SelectContext(query) ==
    /\ \/ kb.fn = "none"
       \/ kb.fn = "get_relevant_context" /\ kb.arg = query
    /\ kb' = [SECTIONS |-> CatalogAfter(kb.SECTIONS, query), fn |-> "get_relevant_context", arg |-> query,
              result |-> get_relevant_context(kb.SECTIONS, query)]
    /\ UNCHANGED <<_queue, _worker_task, tasks, jobs, callers>>

\* chat(history, current_message) up to the enqueue: ctx and contents.
ChatBuild(history, current_message) ==
    /\ kb.fn = "none"
    /\ kb' = [SECTIONS |-> CatalogAfter(kb.SECTIONS, current_message), fn |-> "chat",
              arg |-> [history |-> history, current_message |-> current_message],
              result |-> [ctx |-> get_relevant_context(kb.SECTIONS, current_message),
                          contents |-> BuildContents(kb.SECTIONS, history,
                                                     current_message)]]
    /\ UNCHANGED <<_queue, _worker_task, tasks, jobs, callers>>

\* chat_endpoint's except branch for an error whose text carries msg.
EndpointError(msg) ==
    /\ kb.fn = "none"
    /\ kb' = [SECTIONS |-> kb.SECTIONS, fn |-> "chat_endpoint", arg |-> msg,
              result |-> chat_endpoint_error(msg)]
    /\ UNCHANGED <<_queue, _worker_task, tasks, jobs, callers>>

\* The call returns; its result is dropped with the request.
PureReturn ==
    /\ kb.fn # "none"
    /\ kb' = [SECTIONS |-> kb.SECTIONS, fn |-> "none", arg |-> NoValue,
              result |-> NoValue]
    /\ UNCHANGED <<_queue, _worker_task, tasks, jobs, callers>>

NextPure ==
    \/ \E query \in Queries : SelectContext(query)
    \/ \E history \in Histories, m \in Messages : ChatBuild(history, m)
    \/ \E msg \in ErrorTexts : EndpointError(msg)
    \/ PureReturn

SpecPure == InitPure /\ [][NextPure]_vars

----------------------------------------------------------------------------
(***************************************************************************)
(* The boundary (RAG-Server/app/main.py): the ChatRequest schema validates *)
(* the body before chat_endpoint runs, and chat_endpoint calls chat() with *)
(* the validated fields.                                                   *)
(***************************************************************************)

\* chat() calls accepted during a run of the boundary.
MaxRequests == 2

\* Failed provider invocations during a run of the boundary.
MaxApiFailures == 1

MinMessageLength == 1

MaxMessageLength == 1000

MaxTextLength == 2000

MaxHistoryItems == 50

\* Characters str.strip() removes.
Whitespace == {" ", "\t", "\n", "\r"}

\* v.strip()
Strip(v) ==
    LET keep == {i \in 1..Len(v) : v[i] \notin Whitespace}
    IN IF keep = {} THEN <<>>
       ELSE SubSeq(v, CHOOSE i \in keep : \A k \in keep : i <= k,
                      CHOOSE i \in keep : \A k \in keep : k <= i)

\* Variant of validate_message without the `if not v` test.
MessageNotBlankUnchecked(v) == TRUE

\* validate_message: `v = v.strip()`, ValueError `if not v`.
MessageNotBlank(v) == Strip(v) # <<>>

\* validate_message returns the stripped message.
validate_message(v) == Strip(v)

\* validate_role
validate_role(v) == v \in {"user", "assistant"}

\* HistoryTurn: role validated by validate_role, text with max_length.
HistoryTurnOK(turn) ==
    /\ validate_role(turn.role)
    /\ Len(turn.text) <= MaxTextLength

\* ChatRequest: message with min_length and max_length, then
\* validate_message; history with max_items, each item a HistoryTurn, then
\* validate_history_length.
ChatRequestOK(body) ==
    /\ Len(body.message) >= MinMessageLength
    /\ Len(body.message) <= MaxMessageLength
    /\ MessageNotBlank(body.message)
    /\ Len(body.history) <= MaxHistoryItems
    /\ \A i \in 1..Len(body.history) : HistoryTurnOK(body.history[i])
    /\ ~(Len(body.history) > MaxHistoryItems)

\* history_dicts = [{"role": t.role, "text": t.text} for t in body.history]
history_dicts(history) ==
    [i \in 1..Len(history) |-> [role |-> history[i].role, text |-> history[i].text]]

Repeat(c, n) == [i \in 1..n |-> c]

Hello == <<"h", "e", "l", "l", "o">>

ManageSchedule ==
    <<"m", "a", "n", "a", "g", "e", " ", "s", "c", "h", "e", "d", "u", "l", "e">>

\* Request bodies by name: two that satisfy the schema, with the same
\* history and different messages, and six that break one rule of it each.
Bodies ==
    [padded_hi |->
       [message |-> <<" ", "h", "i", "\n">>,
        history |-> <<[role |-> "user", text |-> Hello],
                      [role |-> "assistant", text |-> ManageSchedule]>>],
     book |->
       [message |-> BookQuery,
        history |-> <<[role |-> "user", text |-> Hello],
                      [role |-> "assistant", text |-> ManageSchedule]>>],
     empty_message |->
       [message |-> <<>>, history |-> <<>>],
     blank_message |->
       [message |-> <<" ", "\t", " ">>, history |-> <<>>],
     long_message |->
       [message |-> Repeat("a", MaxMessageLength + 1), history |-> <<>>],
     long_history |->
       [message |-> <<"h", "i">>,
        history |-> Repeat([role |-> "user", text |-> Hello], MaxHistoryItems + 1)],
     system_role |->
       [message |-> <<"h", "i">>,
        history |-> <<[role |-> "system", text |-> Hello]>>],
     long_text |->
       [message |-> <<"h", "i">>,
        history |-> <<[role |-> "user", text |-> Repeat("a", MaxTextLength + 1)]>>]]

\* POST /api/chat with the body of the given name: a body the schema rejects is
\* answered 422 before chat_endpoint runs; otherwise chat_endpoint calls
\* chat(history_dicts, body.message) with the validated message.
chat_endpoint(name) ==
    LET body == Bodies[name]
    IN /\ kb.fn = "none"
       /\ IF ChatRequestOK(body)
          THEN /\ Len(jobs) < MaxRequests
               /\ ChatCall(history_dicts(body.history), validate_message(body.message))
          ELSE /\ kb' = [SECTIONS |-> kb.SECTIONS, fn |-> "ChatRequest", arg |-> name,
                         result |-> [status_code |-> 422]]
               /\ UNCHANGED <<_queue, _worker_task, tasks, jobs, callers>>

\* Failures the provider raises during a run of the boundary: one that is
\* retried and one that is not.
ApiErrors == {"TooManyRequests", "Other"}

\* The provider call of worker w completes, within the failures of a run.
ProviderReturnsApi(w) ==
    /\ ProviderReturns(w)
    /\ TotalFailures(jobs') <= MaxApiFailures
    /\ \A j \in 1..Len(jobs') :
         jobs'[j].last_outcome.kind = "error" => jobs'[j].last_outcome.name \in ApiErrors

NextApi ==
    \/ \E name \in DOMAIN Bodies : chat_endpoint(name)
    \/ PureReturn
    \/ \E w \in 1..Len(tasks) : WorkerGet(w)
    \/ \E w \in 1..Len(tasks) : ProviderReturnsApi(w)
    \/ \E w \in 1..Len(tasks) : SleepDone(w)
    \/ \E c \in 1..Len(callers) : Abandon(c)
    \/ \E c \in 1..Len(callers) : Resume(c)

SpecApi == Init /\ [][NextApi]_vars

----------------------------------------------------------------------------
JobIds == 1..Len(jobs)

TaskIds == 1..Len(tasks)

Terminal(j) == jobs[j].status \in {"Succeeded", "Failed"}

Alive(w) == tasks[w].pc # "done"

Holders(j) == {w \in TaskIds : tasks[w].job = j}

\* A failure carries a rate-limit signal: status 429, or one of the
\* substrings chat_endpoint maps to rate_limit.
HasRateLimitSignal(exc) ==
    Status(exc) = 429 \/ Classify(exc.msg) = "rate_limit"

\* The back-off waits the retry policy prescribes, in seconds.
ExpectedDelays == <<2, 4, 8, 16>>

\* C1: at most one Job is Executing in every reachable state, and while a
\* worker is in a provider call or a back-off sleep for one Job no other
\* Job is between its dequeue and its terminal state.
C1_AtMostOneExecuting ==
    /\ Cardinality({j \in JobIds : jobs[j].status = "Executing"}) <= 1
    /\ \A w \in TaskIds :
         tasks[w].pc \in {"call", "sleep"} =>
           \A j \in JobIds : jobs[j].status = "Executing" => j = tasks[w].job

C1_Witness ==
    /\ Len(callers) >= 2
    /\ \E w \in TaskIds :
         /\ tasks[w].pc = "sleep"
         /\ jobs[tasks[w].job].status = "Executing"
         /\ _queue.items # <<>>

\* C2: strict FIFO.  Jobs are numbered in the order chat() put them on the
\* queue; the provider has not been invoked for a Job unless every Job
\* submitted before it is Succeeded or Failed.
C2_StrictFIFO ==
    \A j1, j2 \in JobIds :
      (j1 < j2 /\ jobs[j2].invocations > 0) => Terminal(j1)

C2_Witness ==
    /\ Len(jobs) >= 2
    /\ jobs[1].invocations >= 2
    /\ Terminal(1)
    /\ jobs[2].invocations > 0

\* C3: a Job whose provider calls failed K times (K <= 4), each time with
\* status 429, and then returned text is Succeeded with that text after
\* exactly K+1 invocations, and the waits were 2, 4, 8, 16 seconds (the
\* first K of them).
C3_RetryThenSucceed ==
    \A j \in JobIds :
      LET K == jobs[j].failures IN
      (/\ jobs[j].last_outcome.kind = "text"
       /\ jobs[j].rl_failures = K
       /\ K <= MAX_RETRIES)
      => /\ jobs[j].status = "Succeeded"
         /\ jobs[j].outcome = Text(j, K + 1)
         /\ jobs[j].invocations = K + 1
         /\ jobs[j].delays = SubSeq(ExpectedDelays, 1, K)
         /\ jobs[j].future.state \in {"result", "cancelled"}
         /\ jobs[j].future.state = "result" => jobs[j].future.value = Text(j, K + 1)

C3_Witness ==
    \E j \in JobIds :
      /\ jobs[j].status = "Succeeded"
      /\ jobs[j].rl_failures = MAX_RETRIES
      /\ jobs[j].future.state = "result"

\* C4: a Job that only ever saw status-429 failures is Failed exactly when
\* it has been invoked 5 times; no sleep follows the fifth failure and the
\* stored error is the one raised by the fifth invocation.
C4_ExhaustedRetries ==
    \A j \in JobIds :
      /\ (jobs[j].status = "Failed" /\ jobs[j].rl_failures = jobs[j].failures)
           => jobs[j].failures = MAX_RETRIES + 1
      /\ (jobs[j].rl_failures = MAX_RETRIES + 1)
           => /\ jobs[j].status = "Failed"
              /\ jobs[j].invocations = MAX_RETRIES + 1
              /\ Len(jobs[j].delays) = MAX_RETRIES
              /\ Holders(j) = {}
              /\ jobs[j].outcome = jobs[j].last_outcome
              /\ jobs[j].outcome.n = MAX_RETRIES + 1
              /\ jobs[j].future.state = "exception"
                   => jobs[j].future.value = jobs[j].outcome

C4_Witness ==
    \E j \in JobIds :
      /\ jobs[j].status = "Failed"
      /\ jobs[j].rl_failures = MAX_RETRIES + 1
      /\ jobs[j].future.state = "exception"

\* C5: a failure without any rate-limit signal, on whatever attempt, fails
\* the Job at once with that error and the provider is not invoked for the
\* Job again.
C5_FatalNotRetried ==
    \A j \in JobIds :
      (jobs[j].last_outcome.kind = "error" /\ ~HasRateLimitSignal(jobs[j].last_outcome))
      => /\ jobs[j].status = "Failed"
         /\ jobs[j].outcome = jobs[j].last_outcome
         /\ jobs[j].invocations = jobs[j].last_outcome.n
         /\ Holders(j) = {}
         /\ jobs[j].future.state = "exception"
              => jobs[j].future.value = jobs[j].last_outcome

C5_Witness ==
    /\ \E j \in JobIds :
         /\ jobs[j].outcome.kind = "error"
         /\ jobs[j].outcome.name = "Unauthorized"
         /\ jobs[j].invocations = 1
    /\ \E j \in JobIds :
         /\ jobs[j].outcome.kind = "error"
         /\ jobs[j].outcome.name = "Blocked"
         /\ jobs[j].invocations = 3

\* C6: a failure that the boundary surfaces as rate_limit (429, quota or
\* rate limit in its text) and that is not the fifth of its Job is retried:
\* the Job is still Executing after it.
C6_EveryRateLimitRetried ==
    \A j \in JobIds :
      (/\ jobs[j].last_outcome.kind = "error"
       /\ Classify(jobs[j].last_outcome.msg) = "rate_limit"
       /\ jobs[j].last_outcome.n <= MAX_RETRIES)
      => jobs[j].status = "Executing"

\* C7 as stated: a Job that failed with a service_unavailable failure was
\* invoked 5 times before the failure was surfaced.
C7_UnavailableRetried ==
    \A j \in JobIds :
      (/\ jobs[j].status = "Failed"
       /\ Classify(jobs[j].outcome.msg) = "service_unavailable")
      => jobs[j].invocations = MAX_RETRIES + 1

\* C7 amended: a service_unavailable failure without status 429 is not
\* retried; the Job is Failed with it after that invocation and the caller,
\* once resumed, receives that failure.
C7_UnavailableNotRetried ==
    \A j \in JobIds :
      (/\ jobs[j].last_outcome.kind = "error"
       /\ Classify(jobs[j].last_outcome.msg) = "service_unavailable"
       /\ Status(jobs[j].last_outcome) # 429)
      => /\ jobs[j].status = "Failed"
         /\ jobs[j].invocations = jobs[j].last_outcome.n
         /\ Holders(j) = {}
         /\ callers[j].pc # "returned"
         /\ callers[j].pc = "raised" => callers[j].value = jobs[j].last_outcome

C7_Witness ==
    \E j \in JobIds :
      /\ jobs[j].outcome.kind = "error"
      /\ jobs[j].outcome.name = "Unavailable"
      /\ jobs[j].invocations = 1
      /\ callers[j].pc = "raised"

\* C8: when a caller has abandoned its handle the worker loop does not
\* terminate: no worker task is ever done.
C8_AbandonKeepsWorker ==
    (\E c \in JobIds : callers[c].pc = "cancelled")
      => \A w \in TaskIds : Alive(w)

\* C9: whenever a Job is Queued or Executing exactly one worker loop is
\* alive.
C9_WorkerWhilePending ==
    (\E j \in JobIds : jobs[j].status \in {"Queued", "Executing"})
      => Cardinality({w \in TaskIds : Alive(w)}) = 1

\* C10: at most one worker loop exists at any time; a worker task other
\* than the one _worker_task names has finished.
C10_AtMostOneWorker ==
    /\ Cardinality({w \in TaskIds : Alive(w)}) <= 1
    /\ \A w \in TaskIds : Alive(w) => w = _worker_task

C10_Witness ==
    /\ Len(tasks) = 2
    /\ ~Alive(1)
    /\ Alive(2)
    /\ Cardinality({c \in JobIds : callers[c].pc = "await"}) >= 2

\* Number of occurrences of job j on the queue.
Occurrences(items, j) == Cardinality({i \in 1..Len(items) : items[i] = j})

C12_EveryJobCompletes ==
    \A j \in 1..MaxJobs :
      (Len(jobs) >= j) ~>
        (/\ Len(jobs) >= j
         /\ jobs[j].status \in {"Succeeded", "Failed"}
         /\ callers[j].pc # "await")

\* C13: a caller resumed from a Failed Job has the last error the provider
\* raised for that Job, unchanged, and no answer; a caller resumed from a
\* Succeeded Job has the text of the provider's last invocation for it.
C13_FaithfulPropagation ==
    \A j \in JobIds :
      /\ (jobs[j].status = "Failed" /\ callers[j].pc \in {"returned", "raised"})
           => /\ callers[j].pc = "raised"
              /\ callers[j].value = jobs[j].last_outcome
              /\ callers[j].value.kind = "error"
              /\ callers[j].value.job = j
              /\ callers[j].value.n = jobs[j].invocations
      /\ (jobs[j].status = "Succeeded" /\ callers[j].pc \in {"returned", "raised"})
           => /\ callers[j].pc = "returned"
              /\ callers[j].value = Text(j, jobs[j].invocations)
      /\ callers[j].pc \in {"returned", "raised"} => Terminal(j)

C13_Witness ==
    /\ \E j \in JobIds :
         /\ callers[j].pc = "raised"
         /\ callers[j].value.n >= 3
    /\ \E j \in JobIds :
         /\ callers[j].pc = "returned"

\* C14: a chat() call can always run up to `await future` (its put never
\* finds the queue full), whatever the queue length and whatever the worker
\* is doing; its Job is then on the
\* queue behind the earlier ones; and a caller left waiting is waiting for
\* its own Job only: once that Job is terminal the caller can resume.
C14_SubmitNeverBlocks ==
    /\ ~QFull(_queue.items)
    /\ \A i, k \in 1..Len(_queue.items) :
         i < k => _queue.items[i] < _queue.items[k]
    /\ \A c \in JobIds :
         /\ jobs[c].status = "Queued" => Occurrences(_queue.items, c) = 1
         /\ callers[c].pc = "await" =>
              IF Terminal(c) THEN ENABLED Resume(c)
              ELSE jobs[c].future.state = "pending"

C14_Witness ==
    /\ \E w \in TaskIds : tasks[w].pc = "sleep"
    /\ Len(_queue.items) >= 1
    /\ Len(jobs) < MaxJobs
    /\ ~QFull(_queue.items)
    /\ \E c \in JobIds : callers[c].pc = "await" /\ jobs[c].status = "Queued"

----------------------------------------------------------------------------
SectionIds == 1..Len(kb.SECTIONS)

\* Catalog position of the section with the given title.
CatalogIndex(title) == CHOOSE i \in SectionIds : kb.SECTIONS[i].title = title

AllTitles == [i \in SectionIds |-> kb.SECTIONS[i].title]

\* C15: a query none of whose lower-cased text contains any keyword of any
\* section (the empty query included) selects every section, in catalog
\* order.
C15_FullFallback ==
    (/\ kb.fn = "get_relevant_context"
     /\ \A i \in SectionIds : \A k \in 1..Len(kb.SECTIONS[i].keywords) :
          ~Contains(kb.SECTIONS[i].keywords[k], Lower(kb.arg)))
    => /\ kb.result.matched = AllTitles
       /\ Len(kb.result.matched) = Len(kb.SECTIONS)

C15_Witness ==
    /\ kb.fn = "get_relevant_context"
    /\ kb.arg = <<>>
    /\ Len(kb.result.matched) = 7

\* C16: with at least one keyword hit, the matched titles are exactly the
\* sections with hits > 0, each once; a section with more hits precedes one
\* with fewer, and sections with equal hits keep their catalog order.
C16_RankedByHits ==
    LET lower  == Lower(kb.arg)
        h(i)   == Hits(kb.SECTIONS[i], lower)
        m      == kb.result.matched
        idx(p) == CatalogIndex(m[p])
    IN (kb.fn = "get_relevant_context" /\ \E i \in SectionIds : h(i) > 0)
       => /\ \A i \in SectionIds :
               h(i) > 0 <=> \E p \in 1..Len(m) : m[p] = kb.SECTIONS[i].title
          /\ \A p, q \in 1..Len(m) :
               p < q => /\ m[p] # m[q]
                        /\ \/ h(idx(p)) > h(idx(q))
                           \/ h(idx(p)) = h(idx(q)) /\ idx(p) < idx(q)

C16_Witness ==
    /\ kb.fn = "get_relevant_context"
    /\ kb.SECTIONS = SECTIONS_app
    /\ kb.result.matched = <<"5. Business FAQ", "4. Customer FAQ">>

\* C17: the contents chat() builds for a history of n turns are the system
\* prompt with every section of the catalog as a user turn, the
\* acknowledgment as a model turn, the n history turns in order with
\* assistant mapped to model and user kept, texts untouched, and the
\* current message as the last user turn: 2 + n + 1 turns.
C17_TurnSequence ==
    kb.fn = "chat" =>
      LET h == kb.arg.history
          c == kb.result.contents
          n == Len(h)
          N == Len(kb.SECTIONS)
      IN /\ Len(c) = 2 + n + 1
         /\ c[1].role = "user"
         /\ Len(c[1].text) = 5 * N + 1
         /\ c[1].text[1] = PromptHeader
         /\ \A i \in 1..N :
              /\ c[1].text[5 * (i - 1) + 3] = kb.SECTIONS[i].title
              /\ c[1].text[5 * (i - 1) + 5] = kb.SECTIONS[i].content
         /\ c[2] = [role |-> "model", text |-> GroundingAck]
         /\ \A i \in 1..n :
              /\ c[2 + i].text = h[i].text
              /\ h[i].role = "assistant" => c[2 + i].role = "model"
              /\ h[i].role = "user" => c[2 + i].role = "user"
         /\ c[n + 3] = [role |-> "user", text |-> kb.arg.current_message]

C17_Witness ==
    /\ kb.fn = "chat"
    /\ Len(kb.arg.history) = 2
    /\ kb.arg.history[1].role = "user"
    /\ kb.arg.history[2].role = "assistant"
    /\ Len(kb.result.contents) = 5

\* C18: an error text whose signals all belong to one class is answered
\* with that class: rate_limit 429 with retry hint 60, configuration 500,
\* service_unavailable 503, content_blocked 400; a text without any signal
\* with internal_server_error 500; and every text gets exactly one class,
\* that of one of its signals.
C18_ErrorMapping ==
    kb.fn = "chat_endpoint" =>
      LET msg == kb.arg
          r   == kb.result
          RL  == {"429", "quota", "rate limit"}
          CF  == {"api key", "authentication", "unauthorized"}
          UN  == {"overloaded", "unavailable", "timeout"}
          BL  == {"safety", "blocked", "violation"}
      IN /\ msg # {} /\ msg \subseteq RL =>
              r = [status_code |-> 429, error |-> "rate_limit", retry_after |-> 60]
         /\ msg # {} /\ msg \subseteq CF =>
              r = [status_code |-> 500, error |-> "configuration", retry_after |-> None]
         /\ msg # {} /\ msg \subseteq UN =>
              r = [status_code |-> 503, error |-> "service_unavailable",
                   retry_after |-> None]
         /\ msg # {} /\ msg \subseteq BL =>
              r = [status_code |-> 400, error |-> "content_blocked",
                   retry_after |-> None]
         /\ msg \cap (RL \cup CF \cup UN \cup BL) = {} =>
              r = [status_code |-> 500, error |-> "internal_server_error",
                   retry_after |-> None]
         /\ \/ r.error = "rate_limit" /\ msg \cap RL # {}
            \/ r.error = "configuration" /\ msg \cap CF # {}
            \/ r.error = "service_unavailable" /\ msg \cap UN # {}
            \/ r.error = "content_blocked" /\ msg \cap BL # {}
            \/ r.error = "internal_server_error" /\ msg = {}

C18_Witness ==
    /\ kb.fn = "chat_endpoint"
    /\ kb.arg = {"quota"}
    /\ kb.result.status_code = 429

\* C19: "How do I book an appointment?" against the catalog that has the
\* section "4. Customer FAQ" matches that section, and every section ranked
\* before it has the keyword "book".
C19_BookAppointment ==
    (/\ kb.fn = "get_relevant_context"
     /\ kb.arg = BookQuery
     /\ \E i \in SectionIds : kb.SECTIONS[i].title = "4. Customer FAQ")
    => LET m == kb.result.matched
       IN /\ \E p \in 1..Len(m) : m[p] = "4. Customer FAQ"
          /\ \A p, q \in 1..Len(m) :
               (m[q] = "4. Customer FAQ" /\ p < q) =>
                 \E k \in 1..Len(kb.SECTIONS[CatalogIndex(m[p])].keywords) :
                   kb.SECTIONS[CatalogIndex(m[p])].keywords[k] = <<"b", "o", "o", "k">>

C19_Witness ==
    /\ kb.fn = "get_relevant_context"
    /\ kb.arg = BookQuery
    /\ kb.SECTIONS = SECTIONS_app
    /\ kb.result.matched = <<"4. Customer FAQ">>

\* C20: full_text is "### {title}\n{content}" of each section listed in
\* matched, in that order, with the delimiter between consecutive sections
\* and nothing else.
C20_FullTextMatchesTitles ==
    kb.fn = "get_relevant_context" =>
      LET m == kb.result.matched
          t == kb.result.full_text
          n == Len(m)
      IN /\ n >= 1
         /\ Len(t) = 5 * n - 1
         /\ \A p \in 1..n :
              LET b == 5 * (p - 1) IN
              /\ t[b + 1] = "### "
              /\ t[b + 2] = m[p]
              /\ t[b + 3] = "\n"
              /\ t[b + 4] = kb.SECTIONS[CatalogIndex(m[p])].content
              /\ p < n => t[b + 5] = "\n\n---\n\n"

C20_Witness ==
    /\ kb.fn = "get_relevant_context"
    /\ Len(kb.result.matched) = 2
    /\ Len(kb.result.full_text) = 9

\* C21: every chat() call carries a message that is trimmed, non-empty and
\* 1 to 1000 characters long and a history of at most 50 turns, each with
\* role user or assistant and a text of at most 2000 characters, and the
\* Job enqueued for it ends with that message; a request the boundary
\* rejects is answered 422 and creates no Job, starts no worker and invokes
\* no provider call.
C21_OnlyValidRequests ==
    [][/\ \A c \in 1..Len(callers') :
            LET m == callers'[c].current_message
                h == callers'[c].history
                k == jobs'[c].contents
            IN /\ Len(m) >= 1
               /\ Len(m) <= MaxMessageLength
               /\ m[1] \notin Whitespace
               /\ m[Len(m)] \notin Whitespace
               /\ Len(h) <= MaxHistoryItems
               /\ \A i \in 1..Len(h) :
                    /\ h[i].role \in {"user", "assistant"}
                    /\ Len(h[i].text) <= MaxTextLength
               /\ k[Len(k)] = [role |-> "user", text |-> m]
       /\ (kb.fn = "none" /\ kb'.fn = "ChatRequest")
          => /\ kb'.result.status_code = 422
             /\ UNCHANGED <<_queue, _worker_task, tasks, jobs, callers>>]_vars

C21_Witness ==
    /\ kb.fn = "ChatRequest"
    /\ kb.arg = "blank_message"
    /\ Len(jobs) = 1
    /\ jobs[1].status = "Executing"
    /\ callers[1].current_message = <<"h", "i">>

C23_OwnOutcome ==
    \A c \in 1..Len(callers) :
      LET h == callers[c].history
          k == jobs[c].contents
      IN /\ Len(k) = Len(h) + 3
         /\ \A i \in 1..Len(h) : k[2 + i].text = h[i].text
         /\ k[Len(k)].text = callers[c].current_message
         /\ callers[c].pc \in {"returned", "raised"}
            => /\ callers[c].value.job = c
               /\ callers[c].value.n \in 1..jobs[c].invocations
               /\ callers[c].value = jobs[c].outcome
               /\ callers[c].pc = "returned" <=> callers[c].value.kind = "text"
         /\ callers[c].pc = "returned"
            => /\ callers[c].result.answer = callers[c].value
               /\ callers[c].result.matched_sections =
                    get_relevant_context(kb.SECTIONS, callers[c].current_message).matched

C23_Witness ==
    /\ Len(callers) = 2
    /\ callers[1].current_message = BookQuery
    /\ callers[2].current_message = <<"h", "i">>
    /\ callers[1].pc = "returned"
    /\ callers[2].pc = "returned"
    /\ callers[1].result.matched_sections = <<"4. Customer FAQ">>
    /\ Len(callers[2].result.matched_sections) = 7
    /\ callers[1].result.answer.job = 1
    /\ callers[2].result.answer.job = 2

\* C24: an error text with signals of several classes gets the first class,
\* in the order rate_limit, configuration, service_unavailable,
\* content_blocked, whose signal it carries, internal_server_error when it
\* carries none, and the status code of that class.
C24_Precedence ==
    kb.fn = "chat_endpoint" =>
      LET msg == kb.arg
          r   == kb.result
          rl  == msg \cap {"429", "quota", "rate limit"} # {}
          cf  == msg \cap {"api key", "authentication", "unauthorized"} # {}
          un  == msg \cap {"overloaded", "unavailable", "timeout"} # {}
          bl  == msg \cap {"safety", "blocked", "violation"} # {}
      IN /\ r.error = "rate_limit" <=> rl
         /\ r.error = "configuration" <=> ~rl /\ cf
         /\ r.error = "service_unavailable" <=> ~rl /\ ~cf /\ un
         /\ r.error = "content_blocked" <=> ~rl /\ ~cf /\ ~un /\ bl
         /\ r.error = "internal_server_error" <=> ~rl /\ ~cf /\ ~un /\ ~bl
         /\ r.error = "rate_limit" => r.status_code = 429
         /\ r.error = "configuration" => r.status_code = 500
         /\ r.error = "service_unavailable" => r.status_code = 503
         /\ r.error = "content_blocked" => r.status_code = 400
         /\ r.error = "internal_server_error" => r.status_code = 500

C24_Witness ==
    /\ kb.fn = "chat_endpoint"
    /\ kb.arg = {"unauthorized", "timeout"}
    /\ kb.result.error = "configuration"
    /\ kb.result.status_code = 500

\* C25: the contents of any two Jobs have the same first turn, which
\* carries the content of every section of the catalog whatever the
\* selector matched for the message; with the same history they differ in
\* the last turn at most, and with the same history and message they are
\* equal.  The selector's result is what the caller gets as
\* matched_sections.
C25_ContentsIgnoreSelector ==
    \A a, b \in 1..Len(jobs) :
      LET ka == jobs[a].contents
          kb2 == jobs[b].contents
      IN /\ ka[1] = kb2[1]
         /\ \A i \in SectionIds :
              \E p \in 1..Len(ka[1].text) : ka[1].text[p] = kb.SECTIONS[i].content
         /\ callers[a].history = callers[b].history
            => /\ Len(ka) = Len(kb2)
               /\ SubSeq(ka, 1, Len(ka) - 1) = SubSeq(kb2, 1, Len(kb2) - 1)
         /\ (/\ callers[a].history = callers[b].history
             /\ callers[a].current_message = callers[b].current_message)
            => ka = kb2
         /\ callers[a].pc = "returned"
            => callers[a].result.matched_sections = callers[a].ctx.matched

C25_Witness ==
    /\ Len(jobs) = 2
    /\ jobs[1].invocations >= 1
    /\ jobs[2].invocations >= 1
    /\ callers[1].history = callers[2].history
    /\ Len(callers[1].ctx.matched) = 1
    /\ Len(callers[2].ctx.matched) = Len(kb.SECTIONS)
    /\ callers[1].pc = "returned"

\* C26: a chat() call made when the worker task is done and Jobs are still
\* on the queue starts exactly one new worker and puts its Job behind the
\* Jobs left on the queue; a Job starts executing only when every Job
\* submitted before it has left the queue, and on the current worker.
C26_RestartServesBacklog ==
    [][/\ (/\ Len(jobs') = Len(jobs) + 1
           /\ _worker_task # None
           /\ tasks[_worker_task].pc = "done"
           /\ _queue.items # <<>>)
          => /\ Len(tasks') = Len(tasks) + 1
             /\ _worker_task' = Len(tasks')
             /\ tasks'[_worker_task'].pc = "start"
             /\ Cardinality({w \in 1..Len(tasks') : tasks'[w].pc # "done"}) = 1
             /\ _queue'.items = Append(_queue.items, Len(jobs'))
       /\ \A j \in 1..Len(jobs) :
            (jobs[j].status = "Queued" /\ jobs'[j].status = "Executing")
            => /\ \A i \in 1..(j - 1) : jobs[i].status # "Queued"
               /\ tasks'[_worker_task'].job = j
               /\ _queue'.items = Tail(_queue.items)]_vars

C26_Witness ==
    /\ Len(tasks) = 2
    /\ Len(jobs) = 3
    /\ tasks[1].pc = "done"
    /\ tasks[2].pc = "call"
    /\ tasks[2].job = 2
    /\ jobs[3].status = "Queued"
    /\ _queue.items = <<3>>

TypeOK ==
    /\ _queue.unfinished \in 0..MaxJobs
    /\ Len(jobs) = Len(callers)
    /\ \A w \in 1..Len(tasks) : tasks[w].pc \in {"start", "get", "call", "sleep", "done"}
    /\ \A j \in 1..Len(jobs) :
         jobs[j].status \in {"Queued", "Executing", "Succeeded", "Failed"}

====
